---- MODULE Spec2Model ----
(***************************************************************************)
(* Model of npd_assignment: the DataManager pipeline (read, preprocess,    *)
(* reconcile, merge), the functions of utils.py, the Stats queries on the  *)
(* unified table and the reports of a run of main.py.                      *)
(*                                                                         *)
(* A pandas DataFrame is a record                                          *)
(*     [columns |-> sequence of column names,                              *)
(*      index   |-> sequence of row labels,                                *)
(*      rows    |-> sequence of rows, a row being a function               *)
(*                  column name -> cell value]                             *)
(* Row order is the DataFrame's row order.                                 *)
(***************************************************************************)
EXTENDS Integers, Sequences, FiniteSets, TLC

VARIABLES
    emissions_path,   \* contents of the emissions file, as _read_data returns it
    gdp_path,         \* contents of the GDP file, as _read_data returns it
    population_path,  \* contents of the population file, as _read_data returns it
    emission_df,      \* DataManager._emission_df
    gdp_df,           \* DataManager._gdp_df
    population_df,    \* DataManager._population_df
    full_df,          \* DataManager.full_df
    log,              \* history: the stages run on the loaded data, in order
                      \* (a repeated join of the same data is logged once)
    raised,           \* the exception the last call raised, or NoError
    stats_df,         \* Stats.df
    top_k,            \* Stats.top_k
    query,            \* the last Stats query: its name and year_range
    stats,            \* the last Stats query's local frame, after narrowing
    report,           \* the table returned, if the last Stats query was
                      \* a per-year query
    shown,            \* that table as main.py prints it (reindexed)
    top_increase,     \* first frame returned, if the last Stats query was
                      \* emission_change_stats
    top_decrease,     \* second frame returned by that query
    pc,               \* main.py: the statement the run is at
    argv,             \* main.py: the year range of the command line
    frame,            \* the frame passed to a utils function, after the call
    frame0,           \* history: that frame before the call
    call              \* the utils function called, with its arguments

dmVars == <<emissions_path, gdp_path, population_path, emission_df, gdp_df,
            population_df, full_df, log>>
statsVars == <<stats_df, top_k, query, stats, report, shown, top_increase,
               top_decrease>>
mainVars == <<pc, argv>>
utilVars == <<frame, frame0, call>>
vars == <<emissions_path, gdp_path, population_path, emission_df, gdp_df,
          population_df, full_df, log, raised, stats_df, top_k, query, stats,
          report, shown, top_increase, top_decrease, pc, argv, frame, frame0, call>>

(***************************************************************************)
(* Bounds of the model.                                                    *)
(***************************************************************************)
MaxYear == 2        \* year columns / Year values of the sources: 1..MaxYear
MaxEmRows == 2      \* rows of the emissions file
MaxWideRows == 2    \* rows of the GDP and of the population file

(***************************************************************************)
(* DataFrame helpers.                                                      *)
(***************************************************************************)
NoneDF == [none |-> TRUE]

\* an exception: its class and its arguments
Exception(type, args) == [type |-> type, args |-> args]

NoError == Exception("none", <<>>)

Range(s) == {s[i] : i \in DOMAIN s}

\* the default RangeIndex 0..n-1
RangeIndex(n) == [i \in 1..n |-> i - 1]

NRows(df) == Len(df.rows)

\* set(df[col])
ColSet(df, col) == {df.rows[i][col] : i \in 1..NRows(df)}

\* the rows of df at the positions pos (a sequence), labels kept
Take(df, pos) ==
    [columns |-> df.columns,
     index   |-> [i \in 1..Len(pos) |-> df.index[pos[i]]],
     rows    |-> [i \in 1..Len(pos) |-> df.rows[pos[i]]]]

\* df.query(<Keep>): the rows satisfying Keep, in order, labels kept
Query(df, Keep(_)) ==
    Take(df, SelectSeq([i \in 1..NRows(df) |-> i], LAMBDA i : Keep(df.rows[i])))

\* a row without the columns in cols
DropFields(row, cols) == [c \in (DOMAIN row) \ cols |-> row[c]]

\* a row with column old renamed to new
RenameField(row, old, new) ==
    IF old \in DOMAIN row
        THEN [c \in ((DOMAIN row) \ {old}) \cup {new} |->
                 IF c = new THEN row[old] ELSE row[c]]
        ELSE row

\* df.drop(cols, axis=1)
DropColumns(df, cols) ==
    [columns |-> SelectSeq(df.columns, LAMBDA c : c \notin cols),
     index   |-> df.index,
     rows    |-> [i \in 1..NRows(df) |-> DropFields(df.rows[i], cols)]]

\* df.rename({old: new}, axis=1)
RenameColumn(df, old, new) ==
    [columns |-> [i \in 1..Len(df.columns) |->
                     IF df.columns[i] = old THEN new ELSE df.columns[i]],
     index   |-> df.index,
     rows    |-> [i \in 1..NRows(df) |-> RenameField(df.rows[i], old, new)]]

RECURSIVE FlattenSeq(_)
FlattenSeq(ss) ==
    IF ss = <<>> THEN <<>> ELSE Head(ss) \o FlattenSeq(Tail(ss))

(***************************************************************************)
(* config.CONFIG (the entries the model's inputs exercise).                *)
(***************************************************************************)
non_countries == {"WLD", "EUU"}

standardized_country_names == [k \in {"CZECH REPUBLIC"} |-> "CZECHIA"]

RESCALE == 1000

(***************************************************************************)
(* utils.py                                                                *)
(***************************************************************************)
\* str.upper() on the country names of the inputs
Upper(s) ==
    CASE s = "Czech Republic" -> "CZECH REPUBLIC"
      [] s = "World" -> "WORLD"
      [] OTHER -> s

\* the columns of the inputs that hold str values; the others hold numbers
TextColumns == {"Country", "Country Code", "Indicator Name"}

\* the assertion of col_to_uppercase: the column exists and infer_dtype says
\* "string" (an empty column infers as "empty", numbers as "integer")
IsStringColumn(df, col_name) ==
    /\ col_name \in Range(df.columns)
    /\ col_name \in TextColumns
    /\ NRows(df) > 0

\* faulty variant: the uppercased column is not assigned back
col_to_uppercase_unassigned(df, col_name) == df

col_to_uppercase(df, col_name) ==
    [df EXCEPT !.rows = [i \in 1..NRows(df) |->
        [df.rows[i] EXCEPT ![col_name] = Upper(@)]]]

\* faulty variant: the values found in any of the frames
get_any_subset(col_name, dataframes) ==
    UNION {ColSet(dataframes[n], col_name) : n \in DOMAIN dataframes}

\* set.intersection of the column's value sets of the frames (at least one)
get_common_subset(col_name, dataframes) ==
    {x \in ColSet(dataframes[1], col_name) :
        \A n \in DOMAIN dataframes : x \in ColSet(dataframes[n], col_name)}

\* faulty variant: the negation of the query is missing
keep_non_countries(df) ==
    Query(df, LAMBDA r : r["Country Code"] \in non_countries)

remove_non_countries(df) ==
    Query(df, LAMBDA r : ~(r["Country Code"] \in non_countries))

\* the text of a year column header and int() of it
YearHeaders == <<"1", "2", "3", "4", "5">>

ParseYear(h) == CHOOSE y \in 1..Len(YearHeaders) : YearHeaders[y] = h

id_vars == {"Country Code", "Country", "Indicator Name"}

\* faulty variant: every long row carries the value of the first year column
reshape_first_value(df, value_colname) ==
    LET value_vars == SelectSeq(df.columns, LAMBDA c : c \notin id_vars)
        melted(c, r) ==
            [k \in id_vars \cup {"Year", value_colname} |->
                IF k = "Year" THEN ParseYear(c)
                ELSE IF k = value_colname THEN r[value_vars[1]]
                ELSE r[k]]
        rows == FlattenSeq([j \in 1..Len(value_vars) |->
                    [i \in 1..NRows(df) |-> melted(value_vars[j], df.rows[i])]])
    IN  [columns |-> <<"Country Code", "Country", "Indicator Name", "Year",
                       value_colname>>,
         index   |-> RangeIndex(Len(rows)),
         rows    |-> rows]

\* pd.melt(...).astype({"Year": "int64"}): one row per (value column, input
\* row), value columns outermost, fresh RangeIndex
reshape_worldbank_df(df, value_colname) ==
    LET value_vars == SelectSeq(df.columns, LAMBDA c : c \notin id_vars)
        melted(c, r) ==
            [k \in id_vars \cup {"Year", value_colname} |->
                IF k = "Year" THEN ParseYear(c)
                ELSE IF k = value_colname THEN r[c]
                ELSE r[k]]
        rows == FlattenSeq([j \in 1..Len(value_vars) |->
                    [i \in 1..NRows(df) |-> melted(value_vars[j], df.rows[i])]])
    IN  [columns |-> <<"Country Code", "Country", "Indicator Name", "Year",
                       value_colname>>,
         index   |-> RangeIndex(Len(rows)),
         rows    |-> rows]

\* faulty variant: only the first row with an alias is renamed
standardize_first_country_name(df) ==
    [df EXCEPT !.rows = [i \in 1..NRows(df) |->
        [df.rows[i] EXCEPT !["Country"] =
            IF /\ @ \in DOMAIN standardized_country_names
               /\ \A j \in 1..(i - 1) :
                      df.rows[j]["Country"] \notin DOMAIN standardized_country_names
                THEN standardized_country_names[@] ELSE @]]]

\* df["Country"].replace(names_dict, inplace=True)
standardize_country_names(df) ==
    [df EXCEPT !.rows = [i \in 1..NRows(df) |->
        [df.rows[i] EXCEPT !["Country"] =
            IF @ \in DOMAIN standardized_country_names
                THEN standardized_country_names[@] ELSE @]]]

restrict_column(df, col_name, allowed_values) ==
    Query(df, LAMBDA r : r[col_name] \in allowed_values)

(***************************************************************************)
(* data_management.py                                                      *)
(***************************************************************************)
\* the Country restriction of _ensure_data_consistency filters this column
CountryRestrictionColumn == "Year"

\* the allowed values the Country restriction passes to restrict_column
CountryRestrictionValues(common_years, common_countries) == common_years

\* DataManager._ensure_data_consistency on the three frames
ensure_data_consistency(e, g, p) ==
    LET common_years == get_common_subset("Year", <<e, g, p>>)
        common_countries == get_common_subset("Country", <<e, g, p>>)
        years_differ ==
            ~(\A df \in {e, g, p} : ColSet(df, "Year") = common_years)
        e1 == IF years_differ THEN restrict_column(e, "Year", common_years) ELSE e
        g1 == IF years_differ THEN restrict_column(g, "Year", common_years) ELSE g
        p1 == IF years_differ THEN restrict_column(p, "Year", common_years) ELSE p
        countries_differ ==
            ~(\A df \in {e1, g1, p1} : ColSet(df, "Country") = common_countries)
        allowed == CountryRestrictionValues(common_years, common_countries)
        R(df) == IF countries_differ
                    THEN restrict_column(df, CountryRestrictionColumn, allowed)
                    ELSE df
    IN  [e |-> R(e1), g |-> R(g1), p |-> R(p1)]

\* faulty variant: the rescale is applied twice
rescale_emissions_twice(e) ==
    [e EXCEPT !.rows = [i \in 1..NRows(e) |->
        [e.rows[i] EXCEPT !["Emissions (total)"] = @ * RESCALE * RESCALE]]]

\* self._emission_df["Emissions (total)"] *= 1000
rescale_emissions(e) ==
    [e EXCEPT !.rows = [i \in 1..NRows(e) |->
        [e.rows[i] EXCEPT !["Emissions (total)"] = @ * RESCALE]]]

\* faulty variant: the aliases are standardized before the uppercasing
preprocess_data_standardize_first(e, g, p) ==
    LET g1 == remove_non_countries(g)
        p1 == remove_non_countries(p)
        log1 == <<"filter_G", "filter_P">>
    IN
    IF ~IsStringColumn(e, "Country") THEN
        [e |-> e, g |-> g1, p |-> p1, log |-> log1, raised |-> Exception("AssertionError", <<>>)]
    ELSE IF ~IsStringColumn(g1, "Country") THEN
        [e |-> col_to_uppercase(e, "Country"), g |-> g1, p |-> p1,
         log |-> log1 \o <<"upper_E">>, raised |-> Exception("AssertionError", <<>>)]
    ELSE IF ~IsStringColumn(p1, "Country") THEN
        [e |-> col_to_uppercase(e, "Country"),
         g |-> col_to_uppercase(g1, "Country"), p |-> p1,
         log |-> log1 \o <<"upper_E", "upper_G">>, raised |-> Exception("AssertionError", <<>>)]
    ELSE
        LET e2 == col_to_uppercase(standardize_country_names(e), "Country")
            g2 == col_to_uppercase(standardize_country_names(g1), "Country")
            p2 == col_to_uppercase(standardize_country_names(p1), "Country")
            g3 == reshape_worldbank_df(g2, "GDP")
            p3 == reshape_worldbank_df(p2, "Population")
            c  == ensure_data_consistency(e2, g3, p3)
            e6 == RenameColumn(rescale_emissions(c.e), "Emissions (total)",
                               "Emissions [total metric tons]")
            g6 == RenameColumn(c.g, "GDP", "GDP [current US$]")
        IN  [e |-> e6, g |-> g6, p |-> c.p,
             log |-> log1 \o <<"standardize_E", "standardize_G",
                               "standardize_P", "upper_E", "upper_G", "upper_P",
                               "reshape_G", "reshape_P", "reconcile", "rescale",
                               "rename">>,
             raised |-> NoError]

\* DataManager._preprocess_data: the frames, the stages that ran and the
\* exception raised, if any (a failed assertion leaves the earlier stages'
\* in-place changes behind)
preprocess_data(e, g, p) ==
    LET g1 == remove_non_countries(g)
        p1 == remove_non_countries(p)
        log1 == <<"filter_G", "filter_P">>
    IN
    IF ~IsStringColumn(e, "Country") THEN
        [e |-> e, g |-> g1, p |-> p1, log |-> log1, raised |-> Exception("AssertionError", <<>>)]
    ELSE IF ~IsStringColumn(g1, "Country") THEN
        [e |-> col_to_uppercase(e, "Country"), g |-> g1, p |-> p1,
         log |-> log1 \o <<"upper_E">>, raised |-> Exception("AssertionError", <<>>)]
    ELSE IF ~IsStringColumn(p1, "Country") THEN
        [e |-> col_to_uppercase(e, "Country"),
         g |-> col_to_uppercase(g1, "Country"), p |-> p1,
         log |-> log1 \o <<"upper_E", "upper_G">>, raised |-> Exception("AssertionError", <<>>)]
    ELSE
        LET e2 == col_to_uppercase(e, "Country")
            g2 == col_to_uppercase(g1, "Country")
            p2 == col_to_uppercase(p1, "Country")
            g3 == reshape_worldbank_df(g2, "GDP")
            p3 == reshape_worldbank_df(p2, "Population")
            e4 == standardize_country_names(e2)
            g4 == standardize_country_names(g3)
            p4 == standardize_country_names(p3)
            c  == ensure_data_consistency(e4, g4, p4)
            e6 == RenameColumn(rescale_emissions(c.e), "Emissions (total)",
                               "Emissions [total metric tons]")
            g6 == RenameColumn(c.g, "GDP", "GDP [current US$]")
        IN  [e |-> e6, g |-> g6, p |-> c.p,
             log |-> log1 \o <<"upper_E", "upper_G", "upper_P", "reshape_G",
                               "reshape_P", "standardize_E", "standardize_G",
                               "standardize_P", "reconcile", "rescale",
                               "rename">>,
             raised |-> NoError]

merge_keys == {"Country", "Year"}

\* faulty variant: the join matches on Country alone
SameKey_CountryOnly(l, r) == l["Country"] = r["Country"]

SameKey(l, r) == \A k \in merge_keys : l[k] = r[k]

\* faulty variant: a right key is used once, duplicates of it are dropped
merge_first_match(left, right) ==
    LET rows == FlattenSeq([i \in 1..NRows(left) |->
                    LET m == SelectSeq([j \in 1..NRows(right) |-> j],
                                 LAMBDA j : SameKey(left.rows[i], right.rows[j]))
                    IN  IF m = <<>> THEN <<>>
                        ELSE <<left.rows[i] @@ right.rows[m[1]]>>])
    IN  [columns |-> left.columns \o
                     SelectSeq(right.columns, LAMBDA c : c \notin merge_keys),
         index   |-> RangeIndex(Len(rows)),
         rows    |-> rows]

\* pd.merge(left, right, on=["Country", "Year"]): inner join, one output row
\* per pair of rows with equal keys, fresh RangeIndex
merge(left, right) ==
    LET rows == FlattenSeq([i \in 1..NRows(left) |->
                    LET m == SelectSeq([j \in 1..NRows(right) |-> j],
                                 LAMBDA j : SameKey(left.rows[i], right.rows[j]))
                    IN  [n \in 1..Len(m) |-> left.rows[i] @@ right.rows[m[n]]]])
    IN  [columns |-> left.columns \o
                     SelectSeq(right.columns, LAMBDA c : c \notin merge_keys),
         index   |-> RangeIndex(Len(rows)),
         rows    |-> rows]

\* pd.merge raises KeyError when a frame lacks a key column
HasKeys(df) == merge_keys \subseteq Range(df.columns)

dropped_columns == {"Country Code", "Indicator Name"}

\* DataManager._make_full_dataset: functools.reduce of merge over the three
make_full_dataset(e, g, p) ==
    merge(merge(e, DropColumns(g, dropped_columns)),
          DropColumns(p, dropped_columns))

\* faulty variant: the join rescales the emissions frame it reads
emission_df_rescaled_by_join(e) ==
    [e EXCEPT !.rows = [i \in 1..NRows(e) |->
        [e.rows[i] EXCEPT !["Emissions [total metric tons]"] = @ * RESCALE]]]

\* DataManager._emission_df after _make_full_dataset: pd.merge and drop build
\* new frames and leave their operands as they were
emission_df_after_join(e) == e

(***************************************************************************)
(* The input files, as DataManager._read_data returns them.                *)
(***************************************************************************)
SeqsUpTo(S, n) == UNION {[1..k -> S] : k \in 0..n}

EmissionCountries == {"POLAND", "CZECH REPUBLIC"}

\* the (Year, Country) of an emissions row
EmissionKeys == (1..MaxYear) \X EmissionCountries

\* an emissions file with the keys ks; row i holds Total = i (no stage
\* branches on a cell value)
EmissionFile(ks) ==
    [columns |-> <<"Year", "Country", "Emissions (total)">>,
     index |-> RangeIndex(Len(ks)),
     rows |-> [i \in 1..Len(ks) |->
        [c \in {"Year", "Country", "Emissions (total)"} |->
            IF c = "Year" THEN ks[i][1]
            ELSE IF c = "Country" THEN ks[i][2]
            ELSE i]]]

EmissionFiles == {EmissionFile(ks) : ks \in SeqsUpTo(EmissionKeys, MaxEmRows)}

\* (Country Code, Country Name) of the World Bank rows
WorldBankEntities == {<<"CZE", "Czech Republic">>, <<"WLD", "World">>}

\* a World Bank file with year columns "1".."ncols" and the entities ents; the
\* cell of row i and year y holds scale * i + y (no stage branches on a cell)
WorldBankFile(indicator, ncols, ents, scale) ==
    [columns |-> <<"Country", "Country Code", "Indicator Name">> \o
                 [y \in 1..ncols |-> YearHeaders[y]],
     index |-> RangeIndex(Len(ents)),
     rows |-> [i \in 1..Len(ents) |->
        [c \in id_vars \cup {YearHeaders[y] : y \in 1..ncols} |->
            IF c = "Country Code" THEN ents[i][1]
            ELSE IF c = "Country" THEN ents[i][2]
            ELSE IF c = "Indicator Name" THEN indicator
            ELSE scale * i + ParseYear(c)]]]

(***************************************************************************)
(* DataManager: construction and the public operations.                    *)
(***************************************************************************)
StatsIdle ==
    /\ stats_df = NoneDF
    /\ top_k = 0
    /\ query = <<>>
    /\ stats = NoneDF
    /\ report = NoneDF
    /\ shown = NoneDF
    /\ top_increase = NoneDF
    /\ top_decrease = NoneDF

\* no run of main.py
MainIdle ==
    /\ pc = "none"
    /\ argv = <<>>

\* no call of a utils function on a frame of its own
UtilsIdle ==
    /\ frame = NoneDF
    /\ frame0 = NoneDF
    /\ call = <<>>

\* DataManager.__init__: nothing is loaded.  The GDP and the population file
\* are World Bank exports of the same entities and years.
Init ==
    /\ emissions_path \in EmissionFiles
    /\ \E n \in 1..MaxYear, ents \in SeqsUpTo(WorldBankEntities, MaxWideRows) :
           /\ gdp_path = WorldBankFile("GDP (current US$)", n, ents, 10)
           /\ population_path = WorldBankFile("Population, total", n, ents, 100)
    /\ emission_df = NoneDF
    /\ gdp_df = NoneDF
    /\ population_df = NoneDF
    /\ full_df = NoneDF
    /\ log = <<>>
    /\ raised = NoError
    /\ StatsIdle
    /\ MainIdle
    /\ UtilsIdle

\* DataManager.load_data(preprocess)
LoadData(preprocess) ==
    /\ IF preprocess
         THEN LET r == preprocess_data(emissions_path, gdp_path, population_path)
              IN  /\ emission_df' = r.e
                  /\ gdp_df' = r.g
                  /\ population_df' = r.p
                  /\ log' = <<"read">> \o r.log
                  /\ raised' = r.raised
         ELSE /\ emission_df' = emissions_path
              /\ gdp_df' = gdp_path
              /\ population_df' = population_path
              /\ log' = <<"read">>
              /\ raised' = NoError
    /\ UNCHANGED <<emissions_path, gdp_path, population_path, full_df>>
    /\ UNCHANGED <<statsVars, mainVars, utilVars>>

\* DataManager.get_full_data
GetFullData ==
    /\ IF emission_df = NoneDF THEN
           /\ raised' = Exception("AttributeError", <<>>)
           /\ UNCHANGED <<full_df, log, emission_df>>
       ELSE IF ~(HasKeys(emission_df) /\ HasKeys(gdp_df) /\ HasKeys(population_df)) THEN
           /\ raised' = Exception("KeyError", <<>>)
           /\ UNCHANGED <<full_df, log, emission_df>>
       ELSE
           /\ full_df' = make_full_dataset(emission_df, gdp_df, population_df)
           /\ emission_df' = emission_df_after_join(emission_df)
           /\ log' = IF log[Len(log)] = "merge" THEN log
                     ELSE log \o <<"merge">>
           /\ raised' = NoError
    /\ UNCHANGED <<emissions_path, gdp_path, population_path, gdp_df,
                   population_df>>
    /\ UNCHANGED <<statsVars, mainVars, utilVars>>

Next ==
    \/ \E preprocess \in BOOLEAN : LoadData(preprocess)
    \/ GetFullData

Spec == Init /\ [][Next]_vars

(***************************************************************************)
(* The functions of utils.py called on a frame (specification SpecUtils).  *)
(***************************************************************************)
\* the frames a caller passes: an emissions file or a World Bank file
UtilFrames ==
    EmissionFiles \cup
    {WorldBankFile("GDP (current US$)", n, ents, 10) :
        n \in 1..MaxYear, ents \in SeqsUpTo(WorldBankEntities, MaxWideRows)}

\* the column names a caller passes to col_to_uppercase
ColumnNames == {"Country", "Country Code", "Year", "MISSING_COLUMN"}

InitUtils ==
    /\ emissions_path = NoneDF
    /\ gdp_path = NoneDF
    /\ population_path = NoneDF
    /\ emission_df = NoneDF
    /\ gdp_df = NoneDF
    /\ population_df = NoneDF
    /\ full_df = NoneDF
    /\ log = <<>>
    /\ raised = NoError
    /\ StatsIdle
    /\ MainIdle
    /\ frame \in UtilFrames
    /\ frame0 = frame
    /\ call = <<>>

\* a call of a utils function on the frame: the frame it leaves (in place,
\* or as the value returned) and the exception it raises
Called(name, result, exception) ==
    /\ call = <<>>
    /\ call' = name
    /\ frame' = result
    /\ raised' = exception
    /\ UNCHANGED <<dmVars, statsVars, mainVars, frame0>>

\* utils.col_to_uppercase(frame, col_name)
ColToUppercase(col_name) ==
    IF IsStringColumn(frame, col_name)
        THEN Called(<<"col_to_uppercase", col_name>>,
                    col_to_uppercase(frame, col_name), NoError)
        ELSE Called(<<"col_to_uppercase", col_name>>, frame,
                    Exception("AssertionError", <<>>))

\* utils.standardize_country_names(frame)
StandardizeCountryNames ==
    IF "Country" \in Range(frame.columns)
        THEN Called(<<"standardize_country_names">>,
                    standardize_country_names(frame), NoError)
        ELSE Called(<<"standardize_country_names">>, frame,
                    Exception("KeyError", <<>>))

\* utils.remove_non_countries(frame); the query names a column that a frame
\* may lack
RemoveNonCountries ==
    IF "Country Code" \in Range(frame.columns)
        THEN Called(<<"remove_non_countries">>,
                    remove_non_countries(frame), NoError)
        ELSE Called(<<"remove_non_countries">>, frame,
                    Exception("UndefinedVariableError", <<>>))

\* frame = utils.reshape_worldbank_df(frame, value_colname); melt needs the
\* id columns
ReshapeWorldbankDf(value_colname) ==
    IF id_vars \subseteq Range(frame.columns)
        THEN Called(<<"reshape_worldbank_df", value_colname>>,
                    reshape_worldbank_df(frame, value_colname), NoError)
        ELSE Called(<<"reshape_worldbank_df", value_colname>>, frame,
                    Exception("KeyError", <<>>))

NextUtils ==
    \/ \E col_name \in ColumnNames : ColToUppercase(col_name)
    \/ StandardizeCountryNames
    \/ RemoveNonCountries
    \/ ReshapeWorldbankDf("GDP")

SpecUtils == InitUtils /\ [][NextUtils]_vars

(***************************************************************************)
(* Properties of the DataManager pipeline (specification Spec).            *)
(***************************************************************************)
Frames == <<emission_df, gdp_df, population_df>>

\* _preprocess_data ran to its end on the loaded data
Preprocessed == \E i \in DOMAIN log : log[i] = "reconcile"

\* the frames are the ones the last get_full_data joined
Merged == log # <<>> /\ log[Len(log)] = "merge"

\* the three frames as _ensure_data_consistency received them
BeforeReconcile ==
    <<standardize_country_names(col_to_uppercase(emissions_path, "Country")),
      standardize_country_names(reshape_worldbank_df(
          col_to_uppercase(remove_non_countries(gdp_path), "Country"), "GDP")),
      standardize_country_names(reshape_worldbank_df(
          col_to_uppercase(remove_non_countries(population_path), "Country"),
          "Population"))>>

\* C1: after _ensure_data_consistency has run, the three sources have the
\* same set of distinct Year values and the same set of distinct Country
\* values.
C1_SameYearsAndCountries ==
    Preprocessed =>
        \A i, j \in 1..3 :
            /\ ColSet(Frames[i], "Year") = ColSet(Frames[j], "Year")
            /\ ColSet(Frames[i], "Country") = ColSet(Frames[j], "Country")

\* C2: after _ensure_data_consistency has run, no source holds a row whose
\* Country is outside common_countries or whose Year is outside common_years
\* (both computed from the three sources as the step received them).
C2_RowsWithinCommonSubsets ==
    Preprocessed =>
        LET b == BeforeReconcile
            common_years == get_common_subset("Year", b)
            common_countries == get_common_subset("Country", b)
        IN  \A i \in 1..3 :
                /\ ColSet(Frames[i], "Year") \subseteq common_years
                /\ ColSet(Frames[i], "Country") \subseteq common_countries

\* the positions of the rows of df that agree with row u on the columns cols
Backing(df, u, cols) ==
    {i \in 1..NRows(df) : \A c \in cols : df.rows[i][c] = u[c]}

\* C3: every (Country, Year) pair of the unified table is present in all
\* three sources, and every unified row takes its values from exactly one
\* row of each source (the cells of a source are pairwise distinct here, so a
\* value identifies its row).
C3_BackedByOneRowOfEach ==
    Merged =>
        \A n \in 1..NRows(full_df) :
            LET u == full_df.rows[n] IN
            /\ \A i \in 1..3 : Backing(Frames[i], u, merge_keys) # {}
            /\ Cardinality(Backing(emission_df, u,
                   merge_keys \cup {"Emissions [total metric tons]"})) = 1
            /\ Cardinality(Backing(gdp_df, u,
                   merge_keys \cup {"GDP [current US$]"})) = 1
            /\ Cardinality(Backing(population_df, u,
                   merge_keys \cup {"Population"})) = 1

\* C3 witness: a join that produced several rows, one of them from a key
\* that is duplicated in a source
C3_Witness ==
    /\ Merged
    /\ NRows(full_df) >= 2
    /\ \E n \in 1..NRows(full_df) :
           Cardinality(Backing(gdp_df, full_df.rows[n], merge_keys)) = 2

KeyOf(row) == <<row["Country"], row["Year"]>>

Keys(df) == {KeyOf(df.rows[i]) : i \in 1..NRows(df)}

\* how many rows of df carry the key k
KeyCount(df, k) == Cardinality({i \in 1..NRows(df) : KeyOf(df.rows[i]) = k})

NoDuplicateKeys(df) == \A k \in Keys(df) : KeyCount(df, k) = 1

Min3(a, b, c) ==
    IF a <= b /\ a <= c THEN a ELSE IF b <= c THEN b ELSE c

\* C4: the unified table is the inner join on (Country, Year): a key held a,
\* b and c times by the three sources is held a*b*c times by the unified
\* table, and without duplicate keys the unified table has at most the
\* minimum of the three row counts.
C4_JoinMultiplies ==
    Merged =>
        /\ \A k \in Keys(emission_df) \cup Keys(gdp_df) \cup Keys(population_df)
                    \cup Keys(full_df) :
               KeyCount(full_df, k) =
                   KeyCount(emission_df, k) * KeyCount(gdp_df, k)
                       * KeyCount(population_df, k)
        /\ (\A i \in 1..3 : NoDuplicateKeys(Frames[i])) =>
               NRows(full_df) <= Min3(NRows(emission_df), NRows(gdp_df),
                                      NRows(population_df))

\* C4 witness: a key duplicated twice in each source, eight times in the join
C4_Witness ==
    /\ Merged
    /\ \E k \in Keys(full_df) :
           /\ KeyCount(emission_df, k) = 2
           /\ KeyCount(gdp_df, k) = 2
           /\ KeyCount(population_df, k) = 2
           /\ KeyCount(full_df, k) = 8

\* the positions of stage s in the log
At(s) == {i \in DOMAIN log : log[i] = s}

\* the canonical form _preprocess_data gives a raw Country value
Canonical(name) ==
    LET u == Upper(name)
    IN  IF u \in DOMAIN standardized_country_names
            THEN standardized_country_names[u] ELSE u

\* every unified row carries factor x the Total of a row of the emissions file
\* with its Year and (canonical) Country
EmissionsScaledBy(factor) ==
    \A n \in 1..NRows(full_df) :
        \E i \in 1..NRows(emissions_path) :
            LET u == full_df.rows[n]
                r == emissions_path.rows[i]
            IN  /\ u["Year"] = r["Year"]
                /\ u["Country"] = Canonical(r["Country"])
                /\ u["Emissions [total metric tons]"] =
                       factor * r["Emissions (total)"]

\* C5 as stated: the x1000 rescale is applied exactly once and only after
\* the three sources have been joined; Total 1.0 gives 1000.0.
C5_RescaleAfterJoin ==
    /\ \A i \in At("rescale") : \E j \in At("merge") : j < i
    /\ Merged => (Cardinality(At("rescale")) = 1 /\ EmissionsScaledBy(1000))

\* C5 amended: the x1000 rescale is applied exactly once per load, by
\* _preprocess_data and so before the join; every emissions value of the
\* unified table is 1000 x the Total of its row of the emissions file.
C5_RescaleOnceBeforeJoin ==
    /\ \A i \in At("rescale") : \A j \in At("merge") : i < j
    /\ Merged => (Cardinality(At("rescale")) = 1 /\ EmissionsScaledBy(1000))
    /\ Preprocessed =>
           \A i \in 1..NRows(emission_df) :
               emission_df.rows[i]["Emissions [total metric tons]"] =
                   1000 * emissions_path.rows[emission_df.index[i] + 1]
                              ["Emissions (total)"]

\* C5 witness: a unified row with emissions 1000, from a file row with Total 1
C5_Witness ==
    /\ Merged
    /\ \E n \in 1..NRows(full_df) :
           /\ full_df.rows[n]["Emissions [total metric tons]"] = 1000
           /\ emissions_path.rows[1]["Emissions (total)"] = 1

\* stage b ran only after stage a had run
Precedes(a, b) == \A j \in At(b) : \E i \in At(a) : i < j

\* C21: in every preprocessing run each source is uppercased before its
\* aliases are standardized (so that the lowercase names of the files end up
\* under their standard name), GDP and population are reshaped before the
\* reconciliation, and the reconciliation runs only after all three sources
\* have been uppercased, reshaped (GDP, population) and standardized.
C21_StageOrder ==
    /\ Precedes("upper_E", "standardize_E")
    /\ Precedes("upper_G", "standardize_G")
    /\ Precedes("upper_P", "standardize_P")
    /\ \A s \in {"upper_E", "upper_G", "upper_P", "reshape_G", "reshape_P",
                  "standardize_E", "standardize_G", "standardize_P"} :
           Precedes(s, "reconcile")
    /\ Preprocessed =>
           /\ \A f \in {emission_df, gdp_df, population_df} :
                  \A n \in 1..NRows(f) :
                      f.rows[n]["Country"] \in {"POLAND", "CZECHIA"}
           /\ \A f \in {gdp_df, population_df} :
                  /\ "Year" \in Range(f.columns)
                  /\ \A n \in 1..NRows(f) : f.rows[n]["Year"] \in 1..MaxYear

\* C21 witness: a preprocessing run that turned the GDP file's
\* "Czech Republic" into "CZECHIA" in a long row of year 2
C21_Witness ==
    /\ Preprocessed
    /\ \E i \in 1..NRows(gdp_path) : gdp_path.rows[i]["Country"] = "Czech Republic"
    /\ \E n \in 1..NRows(gdp_df) :
           /\ gdp_df.rows[n]["Country"] = "CZECHIA"
           /\ gdp_df.rows[n]["Year"] = 2
    /\ \E n \in 1..NRows(emission_df) : emission_df.rows[n]["Country"] = "CZECHIA"

\* the multiset of the rows of df: how often each row occurs
RowBag(df) ==
    [r \in Range(df.rows) |-> Cardinality({i \in 1..NRows(df) : df.rows[i] = r})]

\* the three frames _make_full_dataset joins
JoinOperands ==
    <<emission_df, DropColumns(gdp_df, dropped_columns),
      DropColumns(population_df, dropped_columns)>>

\* the orders in which three frames can be taken
Orders == {o \in [1..3 -> 1..3] : \A i, j \in 1..3 : o[i] = o[j] => i = j}

\* C22: the inner join of the three sources on (Country, Year) gives the
\* same multiset of rows whatever the order and the grouping of the pairwise
\* joins, also when a source repeats a key; the unified table is that
\* multiset.
C22_JoinOrderIndependent ==
    Merged =>
        \A o \in Orders :
            LET a == JoinOperands[o[1]]
                b == JoinOperands[o[2]]
                c == JoinOperands[o[3]]
            IN  /\ RowBag(merge(merge(a, b), c)) = RowBag(full_df)
                /\ RowBag(merge(a, merge(b, c))) = RowBag(full_df)

\* C22 witness: a join of several rows in which the GDP source repeats a
\* key and the emissions source has a key that the join drops
C22_Witness ==
    /\ Merged
    /\ NRows(full_df) >= 2
    /\ ~NoDuplicateKeys(gdp_df)
    /\ Keys(emission_df) \ Keys(full_df) # {}

\* C23: whatever the sequence of load_data and get_full_data calls, every
\* emissions value of the unified table is 1000 x the Total of a row of the
\* emissions file with its Year and Country: no call compounds the rescale,
\* and a get_full_data call that follows a get_full_data call returns the
\* table the first one returned.
C23_NoCompoundRescale ==
    /\ [](full_df # NoneDF => EmissionsScaledBy(1000))
    /\ []((Preprocessed /\ raised = NoError) =>
             \A i \in 1..NRows(emission_df) :
                 \E j \in 1..NRows(emissions_path) :
                     /\ emission_df.index[i] = emissions_path.index[j]
                     /\ emission_df.rows[i]["Emissions [total metric tons]"] =
                            1000 * emissions_path.rows[j]["Emissions (total)"])
    /\ [][(Merged /\ Merged') => full_df' = full_df]_vars

\* C23 witness: the data loaded and preprocessed again after a join: the
\* unified table of the earlier load is still held, with emissions 2000 from
\* the file row with Total 2
C23_Witness ==
    /\ full_df # NoneDF
    /\ Preprocessed
    /\ ~Merged
    /\ raised = NoError
    /\ \E n \in 1..NRows(full_df) :
           /\ full_df.rows[n]["Emissions [total metric tons]"] = 2000
           /\ emissions_path.rows[2]["Emissions (total)"] = 2

\* the labels of the rows of the file whose Country Code is not excluded, in
\* file order
LabelsOfCountries(file) ==
    LET keep == SelectSeq([i \in 1..NRows(file) |-> i],
                          LAMBDA i : file.rows[i]["Country Code"]
                                         \notin {"WLD", "EUU"})
    IN  [n \in 1..Len(keep) |-> file.index[keep[n]]]

\* the wide frame f holds exactly the rows of the file whose Country Code is
\* not excluded, in file order, cell for cell (the Country name aside, which
\* a later stage rewrites)
HoldsCountriesOf(f, file) ==
    /\ f.columns = file.columns
    /\ f.index = LabelsOfCountries(file)
    /\ \A n \in 1..NRows(f) :
           \A c \in Range(f.columns) \ {"Country"} :
               f.rows[n][c] = file.rows[f.index[n] + 1][c]

\* C19: remove_non_countries keeps exactly the rows whose Country Code is
\* not in the excluded set, in their original order; the pipeline applies it
\* to the GDP and the population source and never to the emissions source.
C19_NonCountriesRemoved ==
    (\E i \in DOMAIN log : log[i] = "filter_G") =>
        /\ \A f \in {gdp_df, population_df} :
               \A n \in 1..NRows(f) :
                   f.rows[n]["Country Code"] \notin {"WLD", "EUU"}
        /\ {gdp_df.rows[n]["Country Code"] : n \in 1..NRows(gdp_df)} \subseteq
               {gdp_path.rows[n]["Country Code"] : n \in 1..NRows(gdp_path)}
        /\ (\A i \in DOMAIN log : log[i] # "reshape_G") =>
               /\ HoldsCountriesOf(gdp_df, gdp_path)
               /\ HoldsCountriesOf(population_df, population_path)
        /\ \A i \in DOMAIN log : log[i] # "filter_E"
        /\ (\A i \in DOMAIN log : log[i] # "reconcile") =>
               /\ emission_df.index = emissions_path.index
               /\ \A n \in 1..NRows(emission_df) :
                      emission_df.rows[n]["Year"] = emissions_path.rows[n]["Year"]

\* C19 witness: the World row dropped from the GDP and the population file,
\* the row after it kept under its label, the emissions frame as read
C19_Witness ==
    /\ log = <<"read", "filter_G", "filter_P">>
    /\ NRows(gdp_path) = 2
    /\ gdp_path.rows[1]["Country Code"] = "WLD"
    /\ gdp_df.index = <<1>>
    /\ gdp_df.rows[1]["Country Code"] = "CZE"
    /\ population_df.index = <<1>>
    /\ emission_df = emissions_path

(***************************************************************************)
(* analysis.py: the Stats object.                                          *)
(*                                                                         *)
(* A float quotient a / b is the fraction <<a, b>> in lowest terms: two    *)
(* quotients are the same float exactly when the fractions are equal.      *)
(***************************************************************************)
MaxStatRows == 3    \* rows of the unified table given to Stats
MaxK == 2           \* top_k ranges over 1..MaxK

RECURSIVE GCD(_, _)
GCD(a, b) == IF b = 0 THEN a ELSE GCD(b, a % b)

\* a / b for integers a >= 0, b > 0
Divide(a, b) == LET g == GCD(a, b) IN <<a \div g, b \div g>>

\* x < y on quotients
Less(x, y) == x[1] * y[2] < y[1] * x[2]

stats_required_columns ==
    {"Country", "Year", "Population", "Emissions [total metric tons]",
     "GDP [current US$]"}

\* faulty variant: only the operands of the derived columns are required
has_operand_columns(df) ==
    {"Population", "Emissions [total metric tons]", "GDP [current US$]"}
        \subseteq Range(df.columns)

\* the assertion of Stats.__init__
has_required_columns(df) ==
    \A col \in stats_required_columns : col \in Range(df.columns)

\* MissingColumnsException(): its message spells out the required columns
MissingColumnsException ==
    Exception("MissingColumnsException", <<stats_required_columns>>)

\* df[cols]: a new frame with the columns cols, same rows and labels
SelectColumns(df, cols) ==
    [columns |-> cols,
     index   |-> df.index,
     rows    |-> [i \in 1..NRows(df) |-> [c \in Range(cols) |-> df.rows[i][c]]]]

\* df[new] = df[num] / df[den]
WithQuotientColumn(df, new, num, den) ==
    [columns |-> IF new \in Range(df.columns) THEN df.columns
                 ELSE Append(df.columns, new),
     index   |-> df.index,
     rows    |-> [i \in 1..NRows(df) |->
        [c \in (DOMAIN df.rows[i]) \cup {new} |->
            IF c = new THEN Divide(df.rows[i][num], df.rows[i][den])
            ELSE df.rows[i][c]]]]

\* faulty variant: the emissions are divided by the GDP
precompute_columns_per_gdp(df) ==
    WithQuotientColumn(
        WithQuotientColumn(df, "GDP [current US$ per capita]",
                           "GDP [current US$]", "Population"),
        "Emissions [metric tons per capita]",
        "Emissions [total metric tons]", "GDP [current US$]")

\* Stats._precompute_columns
precompute_columns(df) ==
    WithQuotientColumn(
        WithQuotientColumn(df, "GDP [current US$ per capita]",
                           "GDP [current US$]", "Population"),
        "Emissions [metric tons per capita]",
        "Emissions [total metric tons]", "Population")

\* Python's None as a year bound; the bounds that are numbers are naturals
None == -1

\* faulty variant: only None counts as unspecified
IsNotNone(x) == x # None

\* bool(x) of a year bound
Truthy(x) == x # None /\ x # 0

\* faulty variant: the upper bound is exclusive
restrict_to_years_range_exclusive(df, year_range) ==
    LET lower == year_range[1]
        upper == year_range[2]
        d1 == IF Truthy(lower)
                  THEN Query(df, LAMBDA r : r["Year"] >= lower) ELSE df
    IN  IF Truthy(upper)
            THEN Query(d1, LAMBDA r : r["Year"] < upper) ELSE d1

\* utils.restrict_to_years_range
restrict_to_years_range(df, year_range) ==
    LET lower == year_range[1]
        upper == year_range[2]
        d1 == IF Truthy(lower)
                  THEN Query(df, LAMBDA r : r["Year"] >= lower) ELSE df
    IN  IF Truthy(upper)
            THEN Query(d1, LAMBDA r : r["Year"] <= upper) ELSE d1

\* faulty variant: among equal values the last occurrence ranks first
RECURSIVE NLargest_keep_last(_, _, _)
NLargest_keep_last(ps, v, n) ==
    IF n <= 0 \/ ps = <<>> THEN <<>>
    ELSE LET best == CHOOSE i \in 1..Len(ps) :
                        /\ \A j \in 1..Len(ps) : ~Less(v[ps[i]], v[ps[j]])
                        /\ \A j \in (i + 1)..Len(ps) : Less(v[ps[j]], v[ps[i]])
             rest == [j \in 1..(Len(ps) - 1) |->
                         IF j < best THEN ps[j] ELSE ps[j + 1]]
         IN  <<ps[best]>> \o NLargest_keep_last(rest, v, n - 1)

\* the positions ps of v ordered by v descending, ties in the order of ps,
\* first n of them: Series.nlargest(n) (keep="first")
RECURSIVE NLargest(_, _, _)
NLargest(ps, v, n) ==
    IF n <= 0 \/ ps = <<>> THEN <<>>
    ELSE LET best == CHOOSE i \in 1..Len(ps) :
                        /\ \A j \in 1..Len(ps) : ~Less(v[ps[i]], v[ps[j]])
                        /\ \A j \in 1..(i - 1) : Less(v[ps[j]], v[ps[i]])
             rest == [j \in 1..(Len(ps) - 1) |->
                         IF j < best THEN ps[j] ELSE ps[j + 1]]
         IN  <<ps[best]>> \o NLargest(rest, v, n - 1)

\* the elements of the set of integers S in ascending order
RECURSIVE Ascending(_)
Ascending(S) ==
    IF S = {} THEN <<>>
    ELSE LET m == CHOOSE x \in S : \A y \in S : x <= y
         IN  <<m>> \o Ascending(S \ {m})

\* st.groupby("Year")[metric].nlargest(k): the row positions of st,
\* year groups ascending, each group's k largest in rank order
groupby_nlargest(st, metric, k) ==
    LET years == Ascending(ColSet(st, "Year"))
        v == [i \in 1..NRows(st) |-> st.rows[i][metric]]
        group(y) == SelectSeq([i \in 1..NRows(st) |-> i],
                              LAMBDA i : st.rows[i]["Year"] = y)
    IN  FlattenSeq([g \in 1..Len(years) |-> NLargest(group(years[g]), v, k)])

\* stats_table.join(st[cols])[out]: the (Year, ID)-indexed table of the
\* metric joined, on the label ID, with the rows of st
ranking_table(st, metric, k, out) ==
    LET top == groupby_nlargest(st, metric, k)
        matches(i) == SelectSeq([j \in 1..NRows(st) |-> j],
                          LAMBDA j : st.index[j] = st.index[top[i]])
        joined == FlattenSeq([i \in 1..Len(top) |->
                      [n \in 1..Len(matches(i)) |->
                          [idx |-> <<st.rows[top[i]]["Year"],
                                     st.index[top[i]]>>,
                           row |-> [c \in Range(out) |->
                                       IF c = metric THEN st.rows[top[i]][c]
                                       ELSE st.rows[matches(i)[n]][c]]]]])
    IN  [columns |-> out,
         index   |-> [i \in 1..Len(joined) |-> joined[i].idx],
         rows    |-> [i \in 1..Len(joined) |-> joined[i].row]]

\* the rows a per-year query ranks: the selected columns of Stats.df, narrowed
\* to year_range when any(year_range)
narrowed(df, cols, year_range) ==
    LET st == SelectColumns(df, cols)
    IN  IF Truthy(year_range[1]) \/ Truthy(year_range[2])
            THEN restrict_to_years_range(st, year_range)
            ELSE st

gdp_columns ==
    <<"Year", "Country", "GDP [current US$]", "GDP [current US$ per capita]">>

emission_columns ==
    <<"Year", "Country", "Emissions [total metric tons]",
      "Emissions [metric tons per capita]">>

\* faulty variant: the emptiness check is missing
gdp_stats_per_year_unchecked(df, k, year_range) ==
    LET st == narrowed(df, gdp_columns, year_range)
    IN  [raised |-> NoError, stats |-> st,
         table |-> ranking_table(st, "GDP [current US$ per capita]", k,
                      <<"Country", "GDP [current US$ per capita]",
                        "GDP [current US$]">>)]

\* Stats.gdp_stats_per_year: the exception raised and the table returned
gdp_stats_per_year(df, k, year_range) ==
    LET st == narrowed(df, gdp_columns, year_range)
    IN  IF NRows(st) = 0
            THEN [raised |-> Exception("EmptyIntervalException", year_range),
                  stats |-> st, table |-> NoneDF]
            ELSE [raised |-> NoError, stats |-> st,
                  table |-> ranking_table(st,
                      "GDP [current US$ per capita]", k,
                      <<"Country", "GDP [current US$ per capita]",
                        "GDP [current US$]">>)]

\* Stats.emission_stats_per_year: the exception raised and the table returned
emission_stats_per_year(df, k, year_range) ==
    LET st == narrowed(df, emission_columns, year_range)
    IN  IF NRows(st) = 0
            THEN [raised |-> Exception("EmptyIntervalException", year_range),
                  stats |-> st, table |-> NoneDF]
            ELSE [raised |-> NoError, stats |-> st,
                  table |-> ranking_table(st,
                      "Emissions [metric tons per capita]", k,
                      <<"Country", "Emissions [total metric tons]",
                        "Emissions [metric tons per capita]">>)]

\* pd.DataFrame()
EmptyFrame == [columns |-> <<>>, index |-> <<>>, rows |-> <<>>]

\* x - y on quotients
Minus(x, y) ==
    LET n == x[1] * y[2] - y[1] * x[2]
        d == x[2] * y[2]
        g == GCD(IF n < 0 THEN -n ELSE n, d)
    IN  <<n \div g, d \div g>>

\* `x in df[col]`: Series.__contains__ tests the labels of the index, not
\* the values of the column
series_contains(df, x) == x \in Range(df.index)

\* the order of str on the country names of the unified tables
SortedCountries == <<"A", "B">>

CountryRank(c) == CHOOSE n \in 1..Len(SortedCountries) : SortedCountries[n] = c

\* the positions ps of v ordered by v ascending, ties in the order of ps,
\* first n of them
RECURSIVE NSmallest(_, _, _)
NSmallest(ps, v, n) ==
    IF n <= 0 \/ ps = <<>> THEN <<>>
    ELSE LET best == CHOOSE i \in 1..Len(ps) :
                        /\ \A j \in 1..Len(ps) : ~Less(v[ps[j]], v[ps[i]])
                        /\ \A j \in 1..(i - 1) : Less(v[ps[i]], v[ps[j]])
             rest == [j \in 1..(Len(ps) - 1) |->
                         IF j < best THEN ps[j] ELSE ps[j + 1]]
         IN  <<ps[best]>> \o NSmallest(rest, v, n - 1)

\* df.sort_values("Country"): rows by country name ascending, equal names
\* in their order (the frames are short: the sort is an insertion sort)
sort_by_country(df) ==
    Take(df, NSmallest([i \in 1..NRows(df) |-> i],
                       [i \in 1..NRows(df) |->
                           <<CountryRank(df.rows[i]["Country"]), 1>>],
                       NRows(df)))

\* a.values - b.values of numpy: elementwise on equal lengths, a length 1
\* operand is broadcast, other lengths cannot be subtracted
values_minus(a, b) ==
    IF Len(a) = Len(b)
        THEN [ok |-> TRUE, values |-> [i \in 1..Len(a) |-> Minus(a[i], b[i])]]
    ELSE IF Len(b) = 1
        THEN [ok |-> TRUE, values |-> [i \in 1..Len(a) |-> Minus(a[i], b[1])]]
    ELSE IF Len(a) = 1
        THEN [ok |-> TRUE, values |-> [i \in 1..Len(b) |-> Minus(a[1], b[i])]]
    ELSE [ok |-> FALSE, values |-> <<>>]

\* the column header of a change report (the header spells out top_k)
increase_column ==
    "Difference in CO2 emissions [metric tons per capita] -- top k increase across decade"

decrease_column ==
    "Difference in CO2 emissions [metric tons per capita] -- top k decrease across decade"

\* sort_values("delta", ascending)[["Country", "delta"]].rename(...).head(k)
change_report(recent, delta, k, ascending, header) ==
    LET ps == [i \in 1..NRows(recent) |-> i]
        order == IF ascending THEN NSmallest(ps, delta, k)
                 ELSE NLargest(ps, delta, k)
    IN  [columns |-> <<"Country", header>>,
         index   |-> [n \in 1..Len(order) |-> recent.index[order[n]]],
         rows    |-> [n \in 1..Len(order) |->
            [c \in {"Country", header} |->
                IF c = "Country" THEN recent.rows[order[n]]["Country"]
                ELSE delta[order[n]]]]]

\* Stats.emission_change_stats: the exception raised, the local frame after
\* the year restriction and the two frames returned
emission_change_stats(df, k) ==
    LET per_capita == "Emissions [metric tons per capita]"
        st0 == SelectColumns(df, <<"Year", "Country", per_capita>>)
        years == ColSet(st0, "Year")
        \* max() of an empty column is NaN, which no index holds
        most_recent_year ==
            IF years = {} THEN None
            ELSE CHOOSE y \in years : \A z \in years : z <= y
        decade_ago == most_recent_year - 10
        insufficient == [raised |-> NoError, stats |-> st0,
                         increase |-> EmptyFrame, decrease |-> EmptyFrame]
    IN  IF years = {} \/ ~series_contains(st0, decade_ago) THEN insufficient
        ELSE
        LET st == restrict_column(st0, "Year", {most_recent_year, decade_ago})
            recent0 == Query(st, LAMBDA r : r["Year"] = most_recent_year)
            ago0 == Query(st, LAMBDA r : r["Year"] = decade_ago)
            common_countries == get_common_subset("Country", <<recent0, ago0>>)
            stats_recent ==
                sort_by_country(restrict_column(recent0, "Country", common_countries))
            stats_ago ==
                sort_by_country(restrict_column(ago0, "Country", common_countries))
            d == values_minus(
                     [i \in 1..NRows(stats_recent) |-> stats_recent.rows[i][per_capita]],
                     [i \in 1..NRows(stats_ago) |-> stats_ago.rows[i][per_capita]])
        IN  IF ~d.ok \/ Len(d.values) # NRows(stats_recent)
                THEN [raised |-> Exception("ValueError", <<>>), stats |-> st,
                      increase |-> NoneDF, decrease |-> NoneDF]
                ELSE [raised |-> NoError, stats |-> st,
                      increase |-> change_report(stats_recent, d.values, k,
                                                 FALSE, increase_column),
                      decrease |-> change_report(stats_recent, d.values, k,
                                                 TRUE, decrease_column)]

\* faulty variant: the count runs over the whole table, not per group
reindex_whole_table(df) ==
    [df EXCEPT !.index = [i \in 1..NRows(df) |-> <<df.index[i][1], i>>]]

\* utils.reindex_grouped_table: the second index level becomes the row's
\* count within its first-level group, from 1
reindex_grouped_table(df) ==
    [df EXCEPT !.index = [i \in 1..NRows(df) |->
        <<df.index[i][1],
          Cardinality({j \in 1..i : df.index[j][1] = df.index[i][1]})>>]]

(***************************************************************************)
(* The unified tables given to Stats, as get_full_data returns them.       *)
(***************************************************************************)
StatCountries == {"A", "B"}

\* 12 - 10 = 2: the years of the tables are a decade apart
StatYears == {2, 12}

\* (Emissions, GDP, Population) of the row at each position, cyclically: the
\* per-capita values tie across different operands (4/2 = 2/1), the two
\* metrics order the rows differently, and a later row can outrank an earlier
Measures == <<(<<2, 4, 2>>), (<<4, 2, 2>>), (<<1, 2, 1>>), (<<6, 3, 1>>)>>

MeasureAt(i) == Measures[((i - 1) % Len(Measures)) + 1]

unified_columns ==
    <<"Year", "Country", "Emissions [total metric tons]", "GDP [current US$]",
      "Population">>

\* the unified table whose rows carry the (Year, Country) keys ks
UnifiedTable(ks) ==
    [columns |-> unified_columns,
     index |-> RangeIndex(Len(ks)),
     rows |-> [i \in 1..Len(ks) |->
        [c \in Range(unified_columns) |->
            IF c = "Year" THEN ks[i][1]
            ELSE IF c = "Country" THEN ks[i][2]
            ELSE IF c = "Emissions [total metric tons]" THEN MeasureAt(i)[1]
            ELSE IF c = "GDP [current US$]" THEN MeasureAt(i)[2]
            ELSE MeasureAt(i)[3]]]]

UnifiedTables ==
    {UnifiedTable(ks) : ks \in SeqsUpTo(StatYears \X StatCountries, MaxStatRows)}

\* the tables of a caller that lack one of the columns of a unified table
IncompleteTables ==
    {DropColumns(t, {c}) : t \in UnifiedTables, c \in Range(unified_columns)}

\* the year bounds a caller passes
YearBounds == {None, 0, 2, 3}

YearRanges == YearBounds \X YearBounds

(***************************************************************************)
(* Stats: construction and the per-year reports (specification SpecStats). *)
(***************************************************************************)
InitStats ==
    /\ emissions_path = NoneDF
    /\ gdp_path = NoneDF
    /\ population_path = NoneDF
    /\ emission_df = NoneDF
    /\ gdp_df = NoneDF
    /\ population_df = NoneDF
    /\ full_df \in UnifiedTables \cup IncompleteTables
    /\ log = <<>>
    /\ raised = NoError
    /\ StatsIdle
    /\ MainIdle
    /\ UtilsIdle

\* stats = Stats(full_df, top_k): Stats.df is the caller's table object, so
\* the derived columns appear in full_df as well; the exception leaves the
\* caller without a Stats object
Construct(k) ==
    /\ stats_df = NoneDF
    /\ IF has_required_columns(full_df)
         THEN /\ stats_df' = precompute_columns(full_df)
              /\ full_df' = precompute_columns(full_df)
              /\ top_k' = k
              /\ raised' = NoError
         ELSE /\ raised' = MissingColumnsException
              /\ UNCHANGED <<stats_df, full_df, top_k>>
    /\ UNCHANGED <<emissions_path, gdp_path, population_path, emission_df,
                   gdp_df, population_df, query, stats, report, shown,
                   top_increase, top_decrease, utilVars>>

\* a caller other than main.py constructs Stats with top_k = k
NewStats(k) ==
    /\ Construct(k)
    /\ UNCHANGED <<log, mainVars>>

Constructed == stats_df # NoneDF /\ top_k > 0

\* faulty variant: the query restricts self.df itself
table_after_restricting(df, st) ==
    Take(df, SelectSeq([i \in 1..NRows(df) |-> i],
                       LAMBDA i : df.index[i] \in Range(st.index)))

\* self.df after a query: `stats = self.df[[...]]` is a new frame, so the
\* in-place restrictions of the query on stats (st after them) leave self.df
\* as it was
table_after_query(df, st) == df

\* the outcome r of a per-year query, and main.py's reindexing of its table;
\* the caller's full_df is the object Stats.df
Returned(r) ==
    /\ raised' = r.raised
    /\ stats' = r.stats
    /\ report' = r.table
    /\ shown' = IF r.raised = NoError THEN reindex_grouped_table(r.table)
                ELSE NoneDF
    /\ top_increase' = NoneDF
    /\ top_decrease' = NoneDF
    /\ stats_df' = table_after_query(stats_df, r.stats)
    /\ full_df' = table_after_query(full_df, r.stats)
    /\ UNCHANGED <<emissions_path, gdp_path, population_path, emission_df,
                   gdp_df, population_df, top_k, utilVars>>

\* stats.gdp_stats_per_year(year_range), then utils.reindex_grouped_table
GdpStatsPerYear(year_range) ==
    /\ Constructed
    /\ query' = <<"gdp", year_range>>
    /\ Returned(gdp_stats_per_year(stats_df, top_k, year_range))
    /\ UNCHANGED <<log, mainVars>>

\* stats.emission_stats_per_year(year_range), then utils.reindex_grouped_table
EmissionStatsPerYear(year_range) ==
    /\ Constructed
    /\ query' = <<"emission", year_range>>
    /\ Returned(emission_stats_per_year(stats_df, top_k, year_range))
    /\ UNCHANGED <<log, mainVars>>

\* the outcome r of emission_change_stats
ReturnedChange(r) ==
    /\ query' = <<"change", <<None, None>>>>
    /\ raised' = r.raised
    /\ top_increase' = r.increase
    /\ top_decrease' = r.decrease
    /\ stats' = r.stats
    /\ stats_df' = table_after_query(stats_df, r.stats)
    /\ full_df' = table_after_query(full_df, r.stats)
    /\ report' = NoneDF
    /\ shown' = NoneDF
    /\ UNCHANGED <<emissions_path, gdp_path, population_path, emission_df,
                   gdp_df, population_df, top_k, utilVars>>

\* stats.emission_change_stats()
EmissionChangeStats ==
    /\ Constructed
    /\ ReturnedChange(emission_change_stats(stats_df, top_k))
    /\ UNCHANGED <<log, mainVars>>

NextStats ==
    \/ \E k \in 1..MaxK : NewStats(k)
    \/ \E year_range \in YearRanges : GdpStatsPerYear(year_range)
    \/ \E year_range \in YearRanges : EmissionStatsPerYear(year_range)
    \/ EmissionChangeStats

SpecStats == InitStats /\ [][NextStats]_vars

(***************************************************************************)
(* main.py from `stats = Stats(full_df)` on (specification SpecMain).      *)
(***************************************************************************)
stats_top_k == 5

\* after get_full_data: the unified table and the -start / -koniec arguments
InitMain ==
    /\ emissions_path = NoneDF
    /\ gdp_path = NoneDF
    /\ population_path = NoneDF
    /\ emission_df = NoneDF
    /\ gdp_df = NoneDF
    /\ population_df = NoneDF
    /\ full_df \in UnifiedTables
    /\ log = <<>>
    /\ raised = NoError
    /\ StatsIdle
    /\ pc = "Stats"
    /\ argv \in YearRanges
    /\ UtilsIdle

\* faulty variant: the exception of a per-year report ends the run
next_unless_raised(next, r) ==
    IF r.raised = NoError THEN next ELSE "aborted"

\* the statement after a per-year report's try block: the except clause
\* catches EmptyIntervalException, the only exception of the outcome r
next_after_try(next, r) == next

\* stats = Stats(full_df)
MainStats ==
    /\ pc = "Stats"
    /\ Construct(stats_top_k)
    /\ pc' = IF has_required_columns(full_df) THEN "emission_stats_per_year"
             ELSE "aborted"
    /\ UNCHANGED <<log, argv>>

\* the try block of the emissions report
MainEmissionReport ==
    /\ pc = "emission_stats_per_year"
    /\ query' = <<"emission", argv>>
    /\ Returned(emission_stats_per_year(stats_df, top_k, argv))
    /\ log' = Append(log, "emission_stats_per_year")
    /\ pc' = next_after_try("gdp_stats_per_year",
                            emission_stats_per_year(stats_df, top_k, argv))
    /\ UNCHANGED argv

\* the try block of the GDP report
MainGdpReport ==
    /\ pc = "gdp_stats_per_year"
    /\ query' = <<"gdp", argv>>
    /\ Returned(gdp_stats_per_year(stats_df, top_k, argv))
    /\ log' = Append(log, "gdp_stats_per_year")
    /\ pc' = next_after_try("emission_change_stats",
                            gdp_stats_per_year(stats_df, top_k, argv))
    /\ UNCHANGED argv

\* the decade-change report; an exception of it is not caught
MainChangeReport ==
    /\ pc = "emission_change_stats"
    /\ ReturnedChange(emission_change_stats(stats_df, top_k))
    /\ log' = Append(log, "emission_change_stats")
    /\ pc' = IF emission_change_stats(stats_df, top_k).raised = NoError
                 THEN "done" ELSE "aborted"
    /\ UNCHANGED argv

NextMain ==
    \/ MainStats
    \/ MainEmissionReport
    \/ MainGdpReport
    \/ MainChangeReport

SpecMain == InitMain /\ [][NextMain]_vars

(***************************************************************************)
(* Properties of the per-year reports (specification SpecStats).           *)
(***************************************************************************)
\* the last call was a per-year query
Queried == query # <<>> /\ query[1] \in {"gdp", "emission"}

\* the last call was a per-year query that returned a table
Ranked == Queried /\ raised = NoError

year_range_of_query == query[2]

Metric ==
    IF query[1] = "gdp" THEN "GDP [current US$ per capita]"
    ELSE "Emissions [metric tons per capita]"

Absolute ==
    IF query[1] = "gdp" THEN "GDP [current US$]"
    ELSE "Emissions [total metric tons]"

\* the position in Stats.df of the row labelled id
PosOf(id) == CHOOSE i \in 1..NRows(stats_df) : stats_df.index[i] = id

\* the per-capita metric of the row of Stats.df at position i
Value(i) == stats_df.rows[i][Metric]

\* row a of Stats.df ranks before row b: larger metric, or equal and earlier
RanksBefore(a, b) ==
    \/ Less(Value(b), Value(a))
    \/ Value(a) = Value(b) /\ a < b

Min(a, b) == IF a <= b THEN a ELSE b

\* the positions in the report of the rows of year y, in report order
ReportGroup(y) ==
    SelectSeq([i \in 1..NRows(report) |-> i], LAMBDA i : report.index[i][1] = y)

\* the positions in Stats.df of the rows of year y
YearGroup(y) == {i \in 1..NRows(stats_df) : stats_df.rows[i]["Year"] = y}

\* C6: for each year of a per-year report, the rows reported are the first
\* min(k, group size) rows of that year's group ordered by the per-capita
\* metric descending, ties in original row order.
C6_TopKPerYear ==
    Ranked =>
        \A y \in {report.index[i][1] : i \in 1..NRows(report)} :
            LET R == ReportGroup(y)
                G == YearGroup(y)
                pos(j) == PosOf(report.index[R[j]][2])
                chosen == {pos(j) : j \in 1..Len(R)}
            IN  /\ Len(R) = Min(top_k, Cardinality(G))
                /\ chosen \subseteq G
                /\ \A j \in 1..Len(R) :
                       report.rows[R[j]][Metric] = Value(pos(j))
                /\ \A i, j \in 1..Len(R) :
                       i < j => /\ RanksBefore(pos(i), pos(j))
                                /\ ~Less(report.rows[R[i]][Metric],
                                         report.rows[R[j]][Metric])
                /\ \A g \in G \ chosen :
                       \A j \in 1..Len(R) : RanksBefore(pos(j), g)

\* C6 witness: a report with k = 2 in which a year's group of three is cut
\* to two rows with tied values
C6_Witness ==
    /\ Ranked
    /\ top_k = 2
    /\ \E y \in StatYears :
           /\ Cardinality(YearGroup(y)) = 3
           /\ Len(ReportGroup(y)) = 2
           /\ report.rows[ReportGroup(y)[1]][Metric] =
                  report.rows[ReportGroup(y)[2]][Metric]

\* C7: in the printed per-year report the rank positions of each year are
\* 1, 2, ..., n in ranking order, restarting at 1 for every year, and each
\* row carries the Year, Country, metric and absolute value of one and the
\* same row of the unified table.
C7_RanksRestartPerYear ==
    Ranked =>
        /\ NRows(shown) = NRows(report)
        /\ \A i \in 1..NRows(shown) :
               LET year == shown.index[i][1]
                   rank == shown.index[i][2]
                   u == stats_df.rows[PosOf(report.index[i][2])]
               IN  /\ IF i = 1 \/ shown.index[IF i = 1 THEN 1 ELSE i - 1][1] # year
                          THEN rank = 1
                          ELSE rank = shown.index[i - 1][2] + 1
                   /\ \A j \in 1..(i - 1) :
                          shown.index[j][1] = year =>
                              \A m \in j..i : shown.index[m][1] = year
                   /\ u["Year"] = year
                   /\ u["Country"] = shown.rows[i]["Country"]
                   /\ u[Metric] = shown.rows[i][Metric]
                   /\ u[Absolute] = shown.rows[i][Absolute]

\* C7 witness: a printed report with ranks 1, 2 for one year, then 1 again
C7_Witness ==
    /\ Ranked
    /\ \E i \in 1..NRows(shown) :
           /\ i + 2 <= NRows(shown)
           /\ shown.index[i][2] = 1
           /\ shown.index[i + 1][2] = 2
           /\ shown.index[i + 2][2] = 1
           /\ shown.rows[i]["Country"] # shown.rows[i + 1]["Country"]

\* the labels of the rows of Stats.df whose Year satisfies In, in row order
LabelsWhere(In(_)) ==
    LET keep == SelectSeq([i \in 1..NRows(stats_df) |-> i],
                          LAMBDA i : In(stats_df.rows[i]["Year"]))
    IN  [n \in 1..Len(keep) |-> stats_df.index[keep[n]]]

\* the rows the query's frame holds are rows of Stats.df, by label
NarrowedRowsAreOriginal ==
    \A n \in 1..NRows(stats) :
        \A c \in Range(stats.columns) :
            stats.rows[n][c] = stats_df.rows[PosOf(stats.index[n])][c]

\* C8 as stated: year_range (low, high) keeps exactly the rows with
\* low <= Year <= high, in order; only None is unbounded.
C8_KeepsClosedRange ==
    Queried =>
        LET low == year_range_of_query[1]
            high == year_range_of_query[2]
            In(y) == (low = None \/ low <= y) /\ (high = None \/ y <= high)
        IN  /\ stats.index = LabelsWhere(In)
            /\ NarrowedRowsAreOriginal

\* a bound that does not restrict: None, or 0
Unspecified(b) == b = None \/ b = 0

\* C8 amended: year_range (low, high) keeps exactly the rows with
\* low <= Year <= high, both inclusive, in their original order, where a
\* bound that is None or 0 is unbounded on its side.
C8_KeepsClosedRangeOfNonzeroBounds ==
    Queried =>
        LET low == year_range_of_query[1]
            high == year_range_of_query[2]
            In(y) == (Unspecified(low) \/ low <= y)
                         /\ (Unspecified(high) \/ y <= high)
        IN  /\ stats.index = LabelsWhere(In)
            /\ NarrowedRowsAreOriginal

\* C8 witness: a query with two nonzero bounds, equal to a Year of the
\* table, that kept some rows and dropped others
C8_Witness ==
    /\ Queried
    /\ year_range_of_query = <<2, 2>>
    /\ NRows(stats) > 0
    /\ NRows(stats) < NRows(stats_df)

\* the year range with None in place of 0
ZeroAsNone(year_range) ==
    [i \in 1..2 |-> IF year_range[i] = 0 THEN None ELSE year_range[i]]

\* what the last query returns for year_range
Outcome(year_range) ==
    IF query[1] = "gdp" THEN gdp_stats_per_year(stats_df, top_k, year_range)
    ELSE emission_stats_per_year(stats_df, top_k, year_range)

\* C9: a per-year query with a year bound of 0 gives the result of the same
\* query with None for that bound: the same rows ranked, the same table, and
\* failure in the same cases.
C9_ZeroBoundIsUnspecified ==
    (Queried /\ 0 \in Range(year_range_of_query)) =>
        LET o == Outcome(ZeroAsNone(year_range_of_query))
        IN  /\ raised.type = o.raised.type
            /\ stats = o.stats
            /\ report = o.table

\* C9 witness: a query (low, 0) that returned a ranking of part of the table
C9_Witness ==
    /\ Ranked
    /\ year_range_of_query = <<3, 0>>
    /\ NRows(report) > 0
    /\ NRows(stats) < NRows(stats_df)

\* the rows of Stats.df left by the year restriction of the last query
Remaining ==
    LET low == year_range_of_query[1]
        high == year_range_of_query[2]
    IN  {i \in 1..NRows(stats_df) :
            /\ Unspecified(low) \/ low <= stats_df.rows[i]["Year"]
            /\ Unspecified(high) \/ stats_df.rows[i]["Year"] <= high}

\* C10: a per-year query raises EmptyIntervalException, carrying the
\* requested year range, exactly when the year restriction leaves no row;
\* otherwise it raises nothing and returns a ranking.
C10_EmptyRangeRaises ==
    Queried =>
        IF Remaining = {}
            THEN /\ raised = Exception("EmptyIntervalException",
                                       year_range_of_query)
                 /\ report = NoneDF
            ELSE /\ raised = NoError
                 /\ report # NoneDF
                 /\ NRows(report) > 0

\* C10 witness: a non-empty table none of whose years is in the requested
\* range, and the exception carrying that range
C10_Witness ==
    /\ Queried
    /\ NRows(stats_df) > 0
    /\ year_range_of_query = <<3, 3>>
    /\ raised = Exception("EmptyIntervalException", <<3, 3>>)

(***************************************************************************)
(* Properties of the decade-change report (specification SpecStats).       *)
(***************************************************************************)
\* the last call was emission_change_stats
Changed == query # <<>> /\ query[1] = "change"

PerCapita(i) == stats_df.rows[i]["Emissions [metric tons per capita]"]

\* the most recent Year of Stats.df (of a table with rows) and the Year a
\* decade before it
MostRecentYear ==
    CHOOSE y \in ColSet(stats_df, "Year") :
        \A z \in ColSet(stats_df, "Year") : z <= y

DecadeAgo == MostRecentYear - 10

\* the positions in Stats.df of the rows of the two slices
RecentRows == {i \in 1..NRows(stats_df) : stats_df.rows[i]["Year"] = MostRecentYear}

AgoRows == {i \in 1..NRows(stats_df) : stats_df.rows[i]["Year"] = DecadeAgo}

\* the countries with a row in both slices
CommonCountries ==
    {stats_df.rows[i]["Country"] : i \in RecentRows} \cap
    {stats_df.rows[i]["Country"] : i \in AgoRows}

\* the two frames returned have no rows
BothEmpty ==
    /\ top_increase # NoneDF /\ NRows(top_increase) = 0
    /\ top_decrease # NoneDF /\ NRows(top_decrease) = 0

DeltasOf(rep, header) ==
    \A n \in 1..NRows(rep) :
        \E i \in RecentRows : \E j \in AgoRows :
            /\ stats_df.rows[i]["Country"] = rep.rows[n]["Country"]
            /\ stats_df.rows[j]["Country"] = rep.rows[n]["Country"]
            /\ rep.rows[n][header] = Minus(PerCapita(i), PerCapita(j))

\* C12: whenever some row has Year = max(Year) - 10 the reports are computed
\* (with a country in both slices they are not the empty pair), and every
\* delta reported is the country's recent per-capita emissions minus its
\* decade-ago per-capita emissions.
C12_DeltaIsRecentMinusDecadeAgo ==
    (Changed /\ NRows(stats_df) > 0 /\ AgoRows # {}) =>
        /\ raised = NoError
        /\ CommonCountries # {} => ~BothEmpty
        /\ DeltasOf(top_increase, increase_column)
        /\ DeltasOf(top_decrease, decrease_column)

\* C13: the two frames hold (Country, delta) rows, each min(k, number of
\* common countries) of them: the first the k largest deltas in descending
\* order, the second the k smallest in ascending order.
C13_TopKChanges ==
    (Changed /\ NRows(stats_df) > 0) =>
        /\ raised = NoError
        /\ NRows(top_increase) = Min(top_k, Cardinality(CommonCountries))
        /\ NRows(top_decrease) = Min(top_k, Cardinality(CommonCountries))
        /\ \A n \in 1..NRows(top_increase) :
               DOMAIN top_increase.rows[n] = {"Country", increase_column}
        /\ \A n \in 1..NRows(top_decrease) :
               DOMAIN top_decrease.rows[n] = {"Country", decrease_column}
        /\ \A m, n \in 1..NRows(top_increase) :
               m < n => ~Less(top_increase.rows[m][increase_column],
                              top_increase.rows[n][increase_column])
        /\ \A m, n \in 1..NRows(top_decrease) :
               m < n => ~Less(top_decrease.rows[n][decrease_column],
                              top_decrease.rows[m][decrease_column])

\* running the last query again on the table as it is now returns what the
\* last query returned
SameAgain ==
    /\ Queried =>
           LET o == Outcome(year_range_of_query)
           IN  raised = o.raised /\ report = o.table
    /\ Changed =>
           LET o == emission_change_stats(stats_df, top_k)
           IN  /\ raised = o.raised
               /\ top_increase = o.increase
               /\ top_decrease = o.decrease

\* C14: no statistics query, whether it returns or raises, changes the
\* unified table held by Stats (and by its caller), and the same query run
\* again returns the same result.
C14_QueriesLeaveTableUnchanged ==
    /\ [][Constructed => stats_df' = stats_df /\ full_df' = full_df]_vars
    /\ [](Constructed => SameAgain)

\* C14 witness: an emissions query that narrowed its own frame to part of
\* the rows and returned a report, with the table whole
C14_Witness ==
    /\ Queried
    /\ query[1] = "emission"
    /\ raised = NoError
    /\ NRows(stats) > 0
    /\ NRows(stats) < NRows(stats_df)
    /\ stats_df = full_df
    /\ NRows(stats_df) = MaxStatRows

(***************************************************************************)
(* Properties of the construction of Stats (specification SpecStats).      *)
(***************************************************************************)
\* C15: Stats(table) succeeds exactly when the table has all five required
\* columns; on a table lacking one of them it raises
\* MissingColumnsException, whose message names all required columns, and
\* no Stats object exists.
C15_MissingColumnRaises ==
    [][stats_df = NoneDF =>
          IF \A c \in {"Country", "Year", "Population",
                        "Emissions [total metric tons]", "GDP [current US$]"} :
                 c \in Range(full_df.columns)
              THEN /\ raised' = NoError
                   /\ stats_df' # NoneDF
                   /\ top_k' > 0
              ELSE /\ raised'.type = "MissingColumnsException"
                   /\ raised'.args =
                          <<{"Country", "Year", "Population",
                             "Emissions [total metric tons]",
                             "GDP [current US$]"}>>
                   /\ stats_df' = NoneDF
                   /\ full_df' = full_df]_vars

\* C15 witness: a table with rows that lacks exactly one required column,
\* after the constructor raised
C15_Witness ==
    /\ raised.type = "MissingColumnsException"
    /\ stats_df = NoneDF
    /\ NRows(full_df) > 0
    /\ Cardinality(stats_required_columns \ Range(full_df.columns)) = 1
    /\ "Year" \in Range(full_df.columns)

\* C24: a successful Stats(table) adds exactly the two derived columns, GDP
\* per capita = GDP / Population and emissions per capita = emissions /
\* Population, to the caller's table object (which is Stats.df), changes no
\* row and no column the table had, and deriving again changes nothing; a
\* construction that fails for missing columns adds no column.
C24_ConstructionAddsDerivedColumns ==
    [][stats_df = NoneDF =>
          IF \A c \in {"Country", "Year", "Population",
                        "Emissions [total metric tons]", "GDP [current US$]"} :
                 c \in Range(full_df.columns)
              THEN /\ stats_df' = full_df'
                   /\ full_df'.columns = full_df.columns \o
                          <<"GDP [current US$ per capita]",
                            "Emissions [metric tons per capita]">>
                   /\ full_df'.index = full_df.index
                   /\ NRows(full_df') = NRows(full_df)
                   /\ \A i \in 1..NRows(full_df) :
                          LET old == full_df.rows[i]
                              new == full_df'.rows[i]
                          IN  /\ \A c \in Range(full_df.columns) : new[c] = old[c]
                              /\ new["GDP [current US$ per capita]"] =
                                     Divide(old["GDP [current US$]"],
                                            old["Population"])
                              /\ new["Emissions [metric tons per capita]"] =
                                     Divide(old["Emissions [total metric tons]"],
                                            old["Population"])
                   /\ precompute_columns(full_df') = full_df'
              ELSE /\ full_df' = full_df
                   /\ stats_df' = NoneDF
                   /\ "GDP [current US$ per capita]" \notin Range(full_df'.columns)
                   /\ "Emissions [metric tons per capita]"
                          \notin Range(full_df'.columns)]_vars

\* C24 witness: a table of three rows after a successful construction, seven
\* columns, the second row with GDP 2 / Population 2 and emissions 4 /
\* Population 2
C24_Witness ==
    /\ Constructed
    /\ query = <<>>
    /\ stats_df = full_df
    /\ NRows(full_df) = 3
    /\ Len(full_df.columns) = 7
    /\ full_df.rows[2]["GDP [current US$ per capita]"] = <<1, 1>>
    /\ full_df.rows[2]["Emissions [metric tons per capita]"] = <<2, 1>>

(***************************************************************************)
(* Properties of a run of main.py (specification SpecMain).                *)
(***************************************************************************)
\* the run has ended, by the last statement or by an uncaught exception
Ended == pc \in {"done", "aborted"}

\* C16: the three reports of a run are independent: the emissions report
\* raising for an empty range does not keep the GDP report from being
\* attempted, neither per-year failure nor the insufficient-history outcome
\* keeps the remaining reports from being attempted, and a run that has
\* ended has attempted all three, in the order emissions, GDP, change.
C16_AllThreeReportsAttempted ==
    /\ pc \in {"Stats", "emission_stats_per_year", "gdp_stats_per_year",
                "emission_change_stats", "done", "aborted"}
    /\ pc = "gdp_stats_per_year" <=> log = <<"emission_stats_per_year">>
    /\ pc = "emission_change_stats" <=>
           log = <<"emission_stats_per_year", "gdp_stats_per_year">>
    /\ Ended <=> log = <<"emission_stats_per_year", "gdp_stats_per_year",
                         "emission_change_stats">>
    /\ (pc = "aborted") => raised.type = "ValueError"

\* C16 witness: a run that ended with the insufficient-history outcome after
\* both per-year reports had raised for an empty range
C16_Witness ==
    /\ pc = "done"
    /\ argv = <<3, 3>>
    /\ NRows(stats_df) > 0
    /\ Changed
    /\ raised = NoError
    /\ BothEmpty
    /\ log = <<"emission_stats_per_year", "gdp_stats_per_year",
               "emission_change_stats">>

(***************************************************************************)
(* Properties of the utils functions (specification SpecUtils).            *)
(***************************************************************************)
\* the names without a lowercase letter
IsUpper(name) == name \in {"POLAND", "CZECH REPUBLIC", "WORLD", "CZE", "WLD"}

\* frame and frame0 have the same columns, labels and number of rows, and
\* the same cells outside the column col
SameExceptColumn(col) ==
    /\ frame.columns = frame0.columns
    /\ frame.index = frame0.index
    /\ \A i \in 1..NRows(frame) :
           \A c \in Range(frame.columns) \ {col} :
               frame.rows[i][c] = frame0.rows[i][c]

\* C17: col_to_uppercase on a column that exists and holds text makes every
\* value of it uppercase and changes nothing else; on a column that is
\* absent or does not hold text it fails with an error and leaves the table
\* as it was.
C17_UppercaseOrFail ==
    (call # <<>> /\ call[1] = "col_to_uppercase") =>
        LET col == call[2]
            textual == /\ col \in Range(frame0.columns)
                       /\ col \in {"Country", "Country Code", "Indicator Name"}
                       /\ NRows(frame0) > 0
        IN  IF textual
                THEN /\ raised = NoError
                     /\ SameExceptColumn(col)
                     /\ \A i \in 1..NRows(frame) :
                            /\ IsUpper(frame.rows[i][col])
                            /\ frame.rows[i][col] = Upper(frame0.rows[i][col])
                ELSE /\ raised # NoError
                     /\ frame = frame0

\* C17 witness: mixed-case country names uppercased, the codes left alone
C17_Witness ==
    /\ call = <<"col_to_uppercase", "Country">>
    /\ raised = NoError
    /\ \E i \in 1..NRows(frame) :
           /\ frame0.rows[i]["Country"] = "Czech Republic"
           /\ frame.rows[i]["Country"] = "CZECH REPUBLIC"
           /\ frame.rows[i]["Country Code"] = "CZE"

\* C18: standardize_country_names replaces every Country value that is a
\* key of the alias map by its mapped value and leaves the other values, the
\* other columns, the number of rows and their order as they were.
C18_AliasesReplaced ==
    (call = <<"standardize_country_names">>) =>
        /\ raised = NoError
        /\ NRows(frame) = NRows(frame0)
        /\ SameExceptColumn("Country")
        /\ \A i \in 1..NRows(frame) :
               frame.rows[i]["Country"] =
                   IF frame0.rows[i]["Country"] = "CZECH REPUBLIC"
                       THEN "CZECHIA"
                       ELSE frame0.rows[i]["Country"]

\* C18 witness: a row of the alias renamed next to a row left as it was
C18_Witness ==
    /\ call = <<"standardize_country_names">>
    /\ raised = NoError
    /\ \E i, j \in 1..NRows(frame) :
           /\ frame0.rows[i]["Country"] = "CZECH REPUBLIC"
           /\ frame.rows[i]["Country"] = "CZECHIA"
           /\ frame0.rows[j]["Country"] = "POLAND"
           /\ frame.rows[j]["Country"] = "POLAND"

\* the long row k is the cell of the wide row i in the year column c
IsCellOf(k, i, c) ==
    /\ \A v \in id_vars : frame.rows[k][v] = frame0.rows[i][v]
    /\ frame.rows[k]["Year"] \in 1..Len(YearHeaders)
    /\ YearHeaders[frame.rows[k]["Year"]] = c
    /\ frame.rows[k][call[2]] = frame0.rows[i][c]

\* C20: reshape_worldbank_df gives exactly one long row per (wide row, year
\* column), with the id columns, the year as an integer and the cell's
\* value: rows out = rows in x year columns, and the wide table can be
\* rebuilt from the long one.
C20_ReshapeIsBijective ==
    (call # <<>> /\ call[1] = "reshape_worldbank_df" /\ raised = NoError) =>
        LET year_columns == Range(frame0.columns) \ id_vars
        IN  /\ NRows(frame) = NRows(frame0) * Cardinality(year_columns)
            /\ \A i \in 1..NRows(frame0) : \A c \in year_columns :
                   Cardinality({k \in 1..NRows(frame) : IsCellOf(k, i, c)}) = 1
            /\ \A k \in 1..NRows(frame) :
                   /\ DOMAIN frame.rows[k] = id_vars \cup {"Year", call[2]}
                   /\ \E i \in 1..NRows(frame0) : \E c \in year_columns :
                          IsCellOf(k, i, c)

\* C20 witness: two wide rows of one entity with two year columns, four long
\* rows
C20_Witness ==
    /\ call = <<"reshape_worldbank_df", "GDP">>
    /\ raised = NoError
    /\ NRows(frame0) = 2
    /\ frame0.rows[1]["Country Code"] = frame0.rows[2]["Country Code"]
    /\ Len(frame0.columns) = 5
    /\ NRows(frame) = 4

====
